---- MODULE Spec2Model ----
(***************************************************************************)
(* A state-machine model of PyFlyt's multi-agent fixed-wing base           *)
(* environment (pz_envs/fixedwing_envs/ma_fixedwing_base_env.py) and of    *)
(* the quadrotor control core (core/drone.py).                             *)
(*                                                                         *)
(* SpecEnv   : MAFixedwingBaseEnv  (__init__, begin_reset, end_reset, step)*)
(* SpecDrone : Drone (reset, set_mode, update_state, update, update_forces)*)
(***************************************************************************)
EXTENDS Integers, Sequences, FiniteSets, TLC

VARIABLES
    \* ---- MAFixedwingBaseEnv ----
    agent_hz,           \* the agent_hz argument of __init__
    constructed,        \* FALSE when __init__ raised
    num_possible_agents,\* self.num_possible_agents = len(start_pos)
    env_step_ratio,     \* self.env_step_ratio
    possible_agents,    \* self.possible_agents (sequence of names)
    agent_name_mapping, \* self.agent_name_mapping (name -> 0-based index)
    current_actions,    \* self.current_actions (index -> action row)
    past_actions,       \* self.past_actions
    has_aviary,         \* hasattr(self, "aviary")
    aviary,             \* the Aviary built by begin_reset, as seen through the env's calls
    step_count,         \* self.step_count
    agents,             \* self.agents (live agents, a sequence)
    last,               \* the last call: its name, inputs, exception and return value
    hook_calls,         \* the outcome-hook evaluations of the last call, in call order
    \* ---- Drone ----
    mode,               \* self.mode
    state,              \* self.state, rows ang_vel, ang_pos, lin_vel, lin_pos
    setpoint,           \* self.setpoint
    rpm,                \* self.rpm
    pwm,                \* self.pwm
    PIDs,               \* self.PIDs, the state of each stage of the active cascade
    z_PIDs,             \* self.z_PIDs = [z_vel_PID, z_pos_PID]
    drone_ops,          \* Drone calls made so far
    drone_last,         \* the last Drone call and what it handed to its callees
    \* ---- cmd2pwm on its own ----
    mix_cmd,            \* a 4-DoF command
    mix_out             \* cmd2pwm(mix_cmd), or <<>> while not yet computed

env_vars == <<agent_hz, constructed, num_possible_agents, env_step_ratio, possible_agents, agent_name_mapping,
              current_actions, past_actions, has_aviary, aviary, step_count,
              agents, last, hook_calls>>

drone_vars == <<mode, state, setpoint, rpm, pwm, PIDs, z_PIDs, drone_ops,
                drone_last>>

mix_vars == <<mix_cmd, mix_out>>

vars == <<env_vars, drone_vars, mix_vars>>

-----------------------------------------------------------------------------
(* Bounds of the model *)

\* step() calls explored per episode
MaxSteps == 3
\* aviary ticks explored per aviary instance
MaxSimTicks == 14
\* Drone calls explored after construction
MaxDroneOps == 4
\* size of the commands given to cmd2pwm, in quarters
CmdSpan == 4

-----------------------------------------------------------------------------
(* Generic helpers *)

Range(s) == {s[i] : i \in DOMAIN s}

RECURSIVE SeqFilter(_, _)
\* the list comprehension [x for x in s if x in keep], order kept
SeqFilter(s, keep) ==
    IF s = <<>> THEN <<>>
    ELSE IF Head(s) \in keep
         THEN <<Head(s)>> \o SeqFilter(Tail(s), keep)
         ELSE SeqFilter(Tail(s), keep)

RECURSIVE SumOver(_, _)
SumOver(f, idx) ==
    IF idx = {} THEN 0
    ELSE LET i == CHOOSE j \in idx : TRUE
         IN f[i] + SumOver(f, idx \ {i})

-----------------------------------------------------------------------------
(* MAFixedwingBaseEnv *)

\* constructor arguments explored: agent_hz and the number of rows of start_pos
AgentHzInputs == {60, 120, -120, 50, 0}
StartPosRows == {1, 2}

\* Python's % (result takes the sign of the divisor) and int(a / b) (truncation)
PyMod(a, b) == IF b > 0 THEN a % b ELSE -((-a) % (-b))
PyTruncDiv(a, b) ==
    LET q == (IF a < 0 THEN -a ELSE a) \div (IF b < 0 THEN -b ELSE b)
    IN IF (a < 0) = (b < 0) THEN q ELSE -q

\* the fixed physics rate the constructor divides by
PhysicsRate == 120
\* warm-up ticks of end_reset
WarmupTicks == 10

AgentNames == <<"uav_0", "uav_1", "uav_2", "uav_3">>
\* a key that is no agent's name
UnknownKey == "intruder"

\* values an action row can take (a row is one value here; 0 is the zero row)
ActionValues == {1}
ZeroAction == 0

\* what compute_term_trunc_reward_info_by_id may return
NoInfo == [k \in {} |-> 0]
HookOutcomes ==
    { [term |-> FALSE, trunc |-> FALSE, rew |-> 0, info |-> NoInfo],
      [term |-> TRUE,  trunc |-> FALSE, rew |-> 1, info |-> [k \in {"a"} |-> 1]],
      [term |-> FALSE, trunc |-> TRUE,  rew |-> 2, info |-> [k \in {"a", "b"} |-> 2]] }

\* {**x, **y}
DictMerge(x, y) ==
    [k \in (DOMAIN x) \cup (DOMAIN y) |-> IF k \in DOMAIN y THEN y[k] ELSE x[k]]

EmptyMap == [k \in {} |-> 0]

NoReturn == [obs |-> EmptyMap, rewards |-> EmptyMap, terminations |-> EmptyMap,
             truncations |-> EmptyMap, infos |-> EmptyMap]

NoAviary == [ticks |-> 0, setpoints |-> EmptyMap, registered |-> FALSE,
             mode |-> -1, warmed |-> FALSE]

CallRecord(op, exc, actions, start, ret) ==
    [op |-> op, exc |-> exc, actions |-> actions, agents_at_start |-> start,
     ret |-> ret]

\* __init__(agent_hz, start_pos with n rows)
EnvInit(hz, n) ==
    /\ agent_hz = hz
    /\ num_possible_agents = n
    \* line 44: 120 % 0 raises ZeroDivisionError, a nonzero remainder AssertionError
    /\ constructed = (hz # 0 /\ PyMod(PhysicsRate, hz) = 0)
    /\ env_step_ratio = IF constructed THEN PyTruncDiv(PhysicsRate, hz) ELSE 0
    /\ possible_agents = [r \in 1..num_possible_agents |-> AgentNames[r]]
    /\ agent_name_mapping =
          [k \in {AgentNames[r] : r \in 1..num_possible_agents} |->
              (CHOOSE r \in 1..num_possible_agents : AgentNames[r] = k) - 1]
    /\ current_actions = [i \in 0..(num_possible_agents - 1) |-> ZeroAction]
    /\ past_actions = [i \in 0..(num_possible_agents - 1) |-> ZeroAction]
    /\ has_aviary = FALSE
    /\ aviary = NoAviary
    /\ step_count = -1
    /\ agents = <<>>
    /\ last = CallRecord("init",
                         IF constructed THEN "none"
                         ELSE IF hz = 0 THEN "ZeroDivisionError" ELSE "AssertionError",
                         EmptyMap, <<>>, NoReturn)
    /\ hook_calls = <<>>

begin_reset ==
    /\ constructed
    /\ step_count' = 0
    /\ agents' = possible_agents
    /\ has_aviary' = TRUE
    /\ aviary' = [NoAviary EXCEPT !.setpoints = EmptyMap]
    /\ last' = CallRecord("begin_reset", "none", EmptyMap, <<>>, NoReturn)
    /\ hook_calls' = <<>>
    /\ UNCHANGED <<agent_hz, constructed, num_possible_agents, env_step_ratio, possible_agents, agent_name_mapping,
                   current_actions, past_actions>>

end_reset ==
    /\ constructed
    /\ IF ~has_aviary
       THEN \* self.aviary does not exist: AttributeError
            /\ last' = CallRecord("end_reset", "AttributeError", EmptyMap, <<>>,
                                  NoReturn)
            /\ UNCHANGED aviary
       ELSE /\ aviary.ticks + WarmupTicks <= MaxSimTicks
            /\ aviary' = [aviary EXCEPT !.registered = TRUE, !.mode = 0,
                                        !.ticks = @ + WarmupTicks, !.warmed = TRUE]
            /\ last' = CallRecord("end_reset", "none", EmptyMap, <<>>, NoReturn)
    /\ hook_calls' = <<>>
    /\ UNCHANGED <<agent_hz, constructed, num_possible_agents, env_step_ratio, possible_agents, agent_name_mapping,
                   current_actions, past_actions, has_aviary, step_count, agents>>

\* the action mappings explored: any subset of the known names and the unknown key
ActionMaps ==
    LET keys == Range(possible_agents) \cup {UnknownKey}
    IN UNION {[ks -> ActionValues] : ks \in SUBSET keys}

\* variant of the snapshot taken after the buffer was cleared
SnapshotActions_AfterClear(cur) == [i \in DOMAIN cur |-> cur[i] * 0]

\* line 271: deepcopy(self.current_actions)
SnapshotActions(cur) == cur

\* variant of line 274 that leaves the buffer as it is
ZeroedActions_Kept(cur) == cur

\* line 274: self.current_actions *= 0.0
ZeroedActions(cur) == [i \in DOMAIN cur |-> cur[i] * 0]

\* variant of the writes that counts the row index from the end of the buffer
WriteActions_Reversed(base, actions) ==
    LET top == Cardinality(DOMAIN base) - 1
    IN [i \in DOMAIN base |->
           IF \E k \in DOMAIN actions : top - agent_name_mapping[k] = i
           THEN actions[CHOOSE k \in DOMAIN actions : top - agent_name_mapping[k] = i]
           ELSE base[i]]

\* lines 275-276: self.current_actions[self.agent_name_mapping[k]] = v, every key known
WriteActions(base, actions) ==
    [i \in DOMAIN base |->
        IF \E k \in DOMAIN actions : agent_name_mapping[k] = i
        THEN actions[CHOOSE k \in DOMAIN actions : agent_name_mapping[k] = i]
        ELSE base[i]]

\* the substep loop's accumulation for one agent (lines 281-304)
Substeps == IF env_step_ratio > 0 THEN 1..env_step_ratio ELSE {}

RECURSIVE MergedInfo(_, _, _)
MergedInfo(h, ag, n) ==
    IF n = 0 THEN NoInfo ELSE DictMerge(MergedInfo(h, ag, n - 1), h[<<n, ag>>].info)

\* the calls of compute_term_trunc_reward_info_by_id made by the nested loop of
\* lines 287-297, in call order: every substep, every agent of the list
HookCalls(h, start) ==
    [i \in 1..(Cardinality(Substeps) * Len(start)) |->
        LET s == ((i - 1) \div Len(start)) + 1
            ag == start[((i - 1) % Len(start)) + 1]
        IN [substep |-> s, agent |-> ag, out |-> h[<<s, ag>>]]]

\* variant of the return value whose observations leave out the agents that
\* finish during the call
StepReturn_DropFinished(h, start, ticks0) ==
    LET live == Range(start)
        alive == {k \in live :
                    ~\E s \in Substeps : h[<<s, k>>].term \/ h[<<s, k>>].trunc}
        n == Cardinality(Substeps)
    IN [obs |-> [k \in (IF n > 0 THEN alive ELSE {}) |->
                    <<agent_name_mapping[k], ticks0 + n>>],
        rewards |-> [k \in live |-> SumOver([s \in Substeps |-> h[<<s, k>>].rew], Substeps)],
        terminations |-> [k \in live |-> \E s \in Substeps : h[<<s, k>>].term],
        truncations |-> [k \in live |-> \E s \in Substeps : h[<<s, k>>].trunc],
        infos |-> [k \in live |-> MergedInfo(h, k, n)]]

\* variant of the return value whose flags are those of the last substep only
StepReturn_LastSubstepOnly(h, start, ticks0) ==
    LET live == Range(start)
        n == Cardinality(Substeps)
    IN [obs |-> [k \in (IF n > 0 THEN live ELSE {}) |->
                    <<agent_name_mapping[k], ticks0 + n>>],
        rewards |-> [k \in live |-> SumOver([s \in Substeps |-> h[<<s, k>>].rew], Substeps)],
        terminations |-> [k \in live |-> n > 0 /\ h[<<n, k>>].term],
        truncations |-> [k \in live |-> n > 0 /\ h[<<n, k>>].trunc],
        infos |-> [k \in live |-> MergedInfo(h, k, n)]]

StepReturn(h, start, ticks0) ==
    LET live == Range(start)
        n == Cardinality(Substeps)
    IN [obs |-> [k \in (IF n > 0 THEN live ELSE {}) |->
                    <<agent_name_mapping[k], ticks0 + n>>],
        rewards |-> [k \in live |-> SumOver([s \in Substeps |-> h[<<s, k>>].rew], Substeps)],
        terminations |-> [k \in live |-> \E s \in Substeps : h[<<s, k>>].term],
        truncations |-> [k \in live |-> \E s \in Substeps : h[<<s, k>>].trunc],
        infos |-> [k \in live |-> MergedInfo(h, k, n)]]

\* variant of the cull that filters the full roster instead of self.agents
Cull_FromRoster(start, terminations, truncations) ==
    SeqFilter(possible_agents,
              {k \in Range(possible_agents) :
                  k \notin DOMAIN terminations \/ ~(terminations[k] \/ truncations[k])})

\* variant of the cull that builds the new list by prepending
Cull_Prepending(start, terminations, truncations) ==
    LET kept == SeqFilter(start, {k \in Range(start) : ~(terminations[k] \/ truncations[k])})
    IN [i \in 1..Len(kept) |-> kept[Len(kept) + 1 - i]]

\* variant of the cull whose condition lost its negation
Cull_KeepFlagged(start, terminations, truncations) ==
    SeqFilter(start, {k \in Range(start) : terminations[k] \/ truncations[k]})

\* lines 308-312
Cull(start, terminations, truncations) ==
    SeqFilter(start, {k \in Range(start) : ~(terminations[k] \/ truncations[k])})

step ==
    /\ constructed
    /\ \E actions \in ActionMaps :
        /\ past_actions' = SnapshotActions(current_actions)
        /\ IF UnknownKey \in DOMAIN actions
           THEN \* KeyError at line 276; the keys iterated before it were written
                \E written \in SUBSET (DOMAIN actions \ {UnknownKey}) :
                    /\ current_actions' =
                          WriteActions(ZeroedActions(current_actions),
                                       [k \in written |-> actions[k]])
                    /\ last' = CallRecord("step", "KeyError", actions,
                                          IF has_aviary THEN agents ELSE <<>>,
                                          NoReturn)
                    /\ hook_calls' = <<>>
                    /\ UNCHANGED <<aviary, step_count, agents>>
           ELSE IF ~has_aviary
           THEN \* AttributeError at line 277: no aviary before begin_reset
                /\ current_actions' = WriteActions(ZeroedActions(current_actions), actions)
                /\ last' = CallRecord("step", "AttributeError", actions, <<>>,
                                      NoReturn)
                /\ hook_calls' = <<>>
                /\ UNCHANGED <<aviary, step_count, agents>>
           ELSE /\ step_count < MaxSteps
                /\ aviary.ticks + Cardinality(Substeps) <= MaxSimTicks
                /\ current_actions' = WriteActions(ZeroedActions(current_actions), actions)
                /\ \E h \in [Substeps \X Range(agents) -> HookOutcomes] :
                     LET ret == StepReturn(h, agents, aviary.ticks)
                     IN /\ aviary' = [aviary EXCEPT
                                         !.setpoints = current_actions',
                                         !.ticks = @ + Cardinality(Substeps)]
                        /\ step_count' = step_count + 1
                        /\ agents' = Cull(agents, ret.terminations, ret.truncations)
                        /\ last' = CallRecord("step", "none", actions, agents, ret)
                        /\ hook_calls' = HookCalls(h, agents)
    /\ UNCHANGED <<agent_hz, constructed, num_possible_agents, env_step_ratio, possible_agents, agent_name_mapping,
                   has_aviary>>

-----------------------------------------------------------------------------
(* Exact rational arithmetic for the floating-point quantities of drone.py:  *)
(* a number is <<n, d>> with d > 0 in lowest terms; <<0, 0>> is the result   *)
(* of a division by zero (numpy's nan/inf).                                  *)

Abs(x) == IF x < 0 THEN -x ELSE x

RECURSIVE GCD(_, _)
GCD(a, b) == IF b = 0 THEN a ELSE GCD(b, a % b)

NaN == <<0, 0>>

Rat(n, d) ==
    IF d = 0 THEN NaN
    ELSE LET s == IF d < 0 THEN -1 ELSE 1
             g == GCD(Abs(n), Abs(d))
         IN <<(s * n) \div g, (s * d) \div g>>

R(n) == <<n, 1>>
Zero == R(0)
One == R(1)
IsNum(a) == a[2] > 0
\* sums and comparisons go through the least common denominator and products
\* cancel first, so that intermediate values stay small
RAdd(a, b) ==
    IF ~IsNum(a) \/ ~IsNum(b) THEN NaN
    ELSE LET g == GCD(a[2], b[2])
         IN Rat(a[1] * (b[2] \div g) + b[1] * (a[2] \div g), (a[2] \div g) * b[2])
RNeg(a) == <<-a[1], a[2]>>
RSub(a, b) == RAdd(a, RNeg(b))
RMul(a, b) ==
    IF ~IsNum(a) \/ ~IsNum(b) THEN NaN
    ELSE LET g1 == GCD(Abs(a[1]), b[2])
             g2 == GCD(Abs(b[1]), a[2])
         IN Rat((a[1] \div g1) * (b[1] \div g2), (a[2] \div g2) * (b[2] \div g1))
RInv(a) == IF a[1] = 0 THEN NaN ELSE IF a[1] < 0 THEN <<-a[2], -a[1]>> ELSE <<a[2], a[1]>>
RDiv(a, b) == IF ~IsNum(b) \/ b[1] = 0 THEN NaN ELSE RMul(a, RInv(b))
RLe(a, b) ==
    LET g == GCD(a[2], b[2])
    IN a[1] * (b[2] \div g) <= b[1] * (a[2] \div g)
RLt(a, b) ==
    LET g == GCD(a[2], b[2])
    IN a[1] * (b[2] \div g) < b[1] * (a[2] \div g)
\* np.clip(x, lo, hi)
RClip(x, lo, hi) == IF RLt(x, lo) THEN lo ELSE IF RLt(hi, x) THEN hi ELSE x

VMax(v) == CHOOSE x \in Range(v) : \A y \in Range(v) : RLe(y, x)
VMin(v) == CHOOSE x \in Range(v) : \A y \in Range(v) : RLe(x, y)
VZero(n) == [i \in 1..n |-> Zero]
VInts(s) == [i \in DOMAIN s |-> R(s[i])]

RECURSIVE DotFrom(_, _, _)
DotFrom(row, v, i) ==
    IF i > Len(v) THEN Zero
    ELSE RAdd(RMul(R(row[i]), v[i]), DotFrom(row, v, i + 1))

-----------------------------------------------------------------------------
(* Drone *)

\* physics_hz accepted by the constructor, and self.physics_hz = 1 / physics_hz
PhysicsHz == 240
physics_hz == Rat(1, PhysicsHz)
\* variant of the time constant with a misplaced decimal point
motor_tau_Millis == Rat(1, 1000)

\* self.motor_tau = 0.01
motor_tau == Rat(1, 100)
\* self.max_rpm, a value derived from the vehicle's parameter file
max_rpm == R(12)
\* self.ctrl_period = 1 / ctrl_hz for the explored ctrl_hz
ctrl_period == Rat(1, 2)
\* the pulse-width floor of cmd2pwm
PwmFloor == Rat(1, 20)

motor_map ==
    << <<1, -1, 1, 1>>,
       <<-1, 1, 1, 1>>,
       <<1, 1, -1, 1>>,
       <<-1, -1, -1, 1>> >>

\* np.matmul(self.motor_map, cmd)
MotorMix(cmd) == [i \in 1..4 |-> DotFrom(motor_map[i], cmd, 1)]

\* the scale-by-max step of cmd2pwm (lines 206-207)
ScaleByMax(v) ==
    LET high == VMax(v)
    IN IF RLt(One, high) THEN [i \in DOMAIN v |-> RDiv(v[i], high)] ELSE v

\* variant of the floor shift that adds (0.05 - low) to every channel
FloorShift_Additive(v) ==
    LET low == VMin(v)
    IN IF RLt(low, PwmFloor)
       THEN [i \in DOMAIN v |-> RAdd(v[i], RSub(PwmFloor, low))]
       ELSE v

\* the floor shift of cmd2pwm (lines 208-209)
FloorShift(v) ==
    LET low == VMin(v)
    IN IF RLt(low, PwmFloor)
       THEN [i \in DOMAIN v |->
               RAdd(v[i], RMul(RDiv(RSub(One, v[i]), RSub(One, low)),
                               RSub(PwmFloor, low)))]
       ELSE v

cmd2pwm(cmd) == FloorShift(ScaleByMax(MotorMix(cmd)))

\* pwm2rpm: self.rpm += (physics_hz / motor_tau) * (max_rpm * pwm - rpm)
pwm2rpm(speed, pw) ==
    [i \in DOMAIN speed |->
        RAdd(speed[i], RMul(RDiv(physics_hz, motor_tau),
                            RSub(RMul(max_rpm, pw[i]), speed[i])))]

\* ---- The PID primitive (PyFlyt.core.PID), from its contract ----
\* gains and limit of each stage (the same on every axis), from the parameter file
Gains ==
    [ang_vel |-> [kp |-> Rat(1, 2), ki |-> Rat(1, 2), kd |-> Rat(1, 4), lim |-> One],
     ang_pos |-> [kp |-> One, ki |-> Rat(1, 2), kd |-> Zero, lim |-> R(2)],
     lin_vel |-> [kp |-> One, ki |-> Zero, kd |-> Rat(1, 4), lim |-> One],
     lin_pos |-> [kp |-> Rat(1, 2), ki |-> One, kd |-> Zero, lim |-> R(2)],
     z_pos |-> [kp |-> One, ki |-> Rat(1, 2), kd |-> Zero, lim |-> R(2)],
     z_vel |-> [kp |-> Rat(1, 2), ki |-> Rat(1, 2), kd |-> Rat(1, 4), lim |-> One]]

\* PID(kp, ki, kd, lim, period) for a quantity of n axes
PIDNew(stage, n) == [stage |-> stage, integral |-> VZero(n), prev_error |-> VZero(n)]

\* PID.reset()
PIDReset(pid) ==
    [pid EXCEPT !.integral = VZero(Len(pid.integral)),
                !.prev_error = VZero(Len(pid.prev_error))]

\* PID.step(measured, target): the output and the stage's new state; the two
\* arguments are evaluated once, as a call does
PIDStep(pid, measured, target) ==
    CHOOSE r \in
        { LET g == Gains[pid.stage]
              n == Len(m)
              error == [i \in 1..n |-> RSub(t[i], m[i])]
              integral == [i \in 1..n |-> RAdd(pid.integral[i], RMul(error[i], ctrl_period))]
              deriv == [i \in 1..n |-> RDiv(RSub(error[i], pid.prev_error[i]), ctrl_period)]
              raw == [i \in 1..n |->
                        RAdd(RAdd(RMul(g.kp, error[i]), RMul(g.ki, integral[i])),
                             RMul(g.kd, deriv[i]))]
          IN [out |-> [i \in 1..n |-> RClip(raw[i], RNeg(g.lim), g.lim)],
              pid |-> [pid EXCEPT !.integral = integral, !.prev_error = error],
              target |-> t]
          : m \in {measured}, t \in {target} } : TRUE

PIDIsZero(pid) ==
    /\ \A i \in DOMAIN pid.integral : pid.integral[i] = Zero
    /\ \A i \in DOMAIN pid.prev_error : pid.prev_error[i] = Zero

\* ---- inputs explored ----
\* bodies of the world: this vehicle, another vehicle and the ground plane
ThisBody == "self"
OtherBody == "other"
GroundBody == "ground"
\* what getContactPoints() may return: the contact points of the whole world,
\* each between two bodies
ContactSamples ==
    { {},
      {<<OtherBody, GroundBody>>},
      {<<ThisBody, GroundBody>>},
      {<<ThisBody, GroundBody>>, <<OtherBody, GroundBody>>} }

\* what update_state may read from the physics engine
StateSamples ==
    { << VInts(<<0, 0, 0>>), <<Zero, Zero, Rat(2, 5)>>, VInts(<<0, 0, 0>>),
         VInts(<<2, 3, 1>>) >>,
      << <<Rat(1, 2), Rat(-1, 2), Zero>>, <<Rat(1, 4), Zero, R(-1)>>,
         <<One, Zero, Rat(-1, 2)>>, VInts(<<-1, 0, 2>>) >> }

\* what update_state reads right after resetBasePositionAndOrientation:
\* the start pose (start_pos = (0, 0, 1), start_orn = 0) at rest
StartState ==
    << VInts(<<0, 0, 0>>), VInts(<<0, 0, 0>>), VInts(<<0, 0, 0>>), VInts(<<0, 0, 1>>) >>

\* setpoints a caller may assign
SetpointSamples ==
    { <<Zero, Zero, Zero, Rat(1, 2)>>,
      <<One, Rat(-1, 2), Rat(1, 2), R(2)>> }

\* the mode arguments explored: the eight modes and one value outside them
Modes == 0..7
ModeInputs == 0..8

\* math.cos and math.sin of the sampled yaw angles, to one decimal
Cos(yaw) ==
    CASE yaw = Zero -> One
      [] yaw = Rat(2, 5) -> Rat(9, 10)
      [] yaw = R(-1) -> Rat(1, 2)
Sin(yaw) ==
    CASE yaw = Zero -> Zero
      [] yaw = Rat(2, 5) -> Rat(2, 5)
      [] yaw = R(-1) -> Rat(-4, 5)

NoneStepped == [angle |-> <<>>, angle_targets |-> <<>>, angle_outs |-> <<>>,
                height |-> <<>>, height_targets |-> <<>>, height_outs |-> <<>>,
                z_target |-> <<>>]

\* the argument list of a call without arguments
NoArg == <<>>

\* what update_drag saw and did: the contact points of the world and whether
\* the drag force and torque were applied
NoDrag == [contacts |-> {}, applied |-> FALSE]

DroneCall(op, arg, exc, fed, cmd, stepped, drag) ==
    [op |-> op, arg |-> arg, exc |-> exc, fed_pwm |-> fed, cmd |-> cmd,
     stepped |-> stepped, drag |-> drag]

\* variant of the preset that reads the vertical velocity for the height
ModeSetpoint_WrongRow(m, st) ==
    IF m = 0 THEN <<Zero, Zero, Zero, R(-1)>>
    ELSE IF m \in {1, 5, 6} THEN VZero(4)
    ELSE IF m = 7 THEN <<st[4][1], st[4][2], st[2][3]>>
    ELSE [VZero(4) EXCEPT ![4] = st[3][3]]

\* the setpoint preset of set_mode (lines 250-262)
ModeSetpoint(m, st) ==
    IF m = 0 THEN <<Zero, Zero, Zero, R(-1)>>
    ELSE IF m \in {1, 5, 6} THEN VZero(4)
    ELSE IF m = 7 THEN <<st[4][1], st[4][2], st[2][3]>>
    ELSE [VZero(4) EXCEPT ![4] = st[4][3]]

\* variant of the cascade that builds two stages for mode 2 as well
ModeCascade_Mode2Grouped(m, old) ==
    IF m = 0 THEN <<PIDNew("ang_vel", 3)>>
    ELSE IF m \in {1, 2, 3} THEN <<PIDNew("ang_vel", 3), PIDNew("ang_pos", 3)>>
    ELSE IF m \in {4, 5, 6}
         THEN <<PIDNew("ang_vel", 3), PIDNew("ang_pos", 2), PIDNew("lin_vel", 2)>>
    ELSE IF m = 7
         THEN <<PIDNew("ang_vel", 3), PIDNew("ang_pos", 3), PIDNew("lin_vel", 2),
                PIDNew("lin_pos", 2)>>
    ELSE old

\* the cascade instantiated by set_mode (lines 266-343); unchanged for other values
ModeCascade(m, old) ==
    IF m \in {0, 2} THEN <<PIDNew("ang_vel", 3)>>
    ELSE IF m \in {1, 3} THEN <<PIDNew("ang_vel", 3), PIDNew("ang_pos", 3)>>
    ELSE IF m \in {4, 5, 6}
         THEN <<PIDNew("ang_vel", 3), PIDNew("ang_pos", 2), PIDNew("lin_vel", 2)>>
    ELSE IF m = 7
         THEN <<PIDNew("ang_vel", 3), PIDNew("ang_pos", 3), PIDNew("lin_vel", 2),
                PIDNew("lin_pos", 2)>>
    ELSE old

\* lines 345-346: reset every controller of self.PIDs
ResetAll(pids) == [i \in DOMAIN pids |-> PIDReset(pids[i])]

\* one more call within the explored budget
CountCall ==
    /\ drone_ops < MaxDroneOps
    /\ drone_ops' = drone_ops + 1

\* variant of set_mode that also stops the motors
set_mode_StopsMotors(m) ==
    /\ CountCall
    /\ setpoint' = ModeSetpoint(m, state)
    /\ mode' = m
    /\ PIDs' = ResetAll(ModeCascade(m, PIDs))
    /\ rpm' = VZero(4)
    /\ drone_last' = DroneCall("set_mode", <<m>>, "none", <<>>, <<>>, NoneStepped, NoDrag)
    /\ UNCHANGED <<state, pwm, z_PIDs>>

set_mode(m) ==
    /\ CountCall
    /\ setpoint' = ModeSetpoint(m, state)
    /\ mode' = m
    /\ PIDs' = ResetAll(ModeCascade(m, PIDs))
    /\ drone_last' = DroneCall("set_mode", <<m>>, "none", <<>>, <<>>, NoneStepped, NoDrag)
    /\ UNCHANGED <<state, rpm, pwm, z_PIDs>>

\* reset(): set_mode(0), zeroed fields, then update_state reads the start pose
reset ==
    /\ CountCall
    /\ mode' = 0
    /\ PIDs' = ResetAll(ModeCascade(0, PIDs))
    /\ state' = StartState
    /\ setpoint' = VZero(4)
    /\ rpm' = VZero(4)
    /\ pwm' = VZero(4)
    /\ drone_last' = DroneCall("reset", NoArg, "none", <<>>, <<>>, NoneStepped, NoDrag)
    /\ UNCHANGED z_PIDs

\* a caller's assignment to the setpoint
set_setpoint(sp) ==
    /\ CountCall
    /\ setpoint' = sp
    /\ drone_last' = DroneCall("set_setpoint", NoArg, "none", <<>>, <<>>, NoneStepped, NoDrag)
    /\ UNCHANGED <<mode, state, rpm, pwm, PIDs, z_PIDs>>

update_state(st) ==
    /\ CountCall
    /\ state' = st
    /\ drone_last' = DroneCall("update_state", NoArg, "none", <<>>, <<>>, NoneStepped, NoDrag)
    /\ UNCHANGED <<mode, setpoint, rpm, pwm, PIDs, z_PIDs>>

\* np.matmul(rot_mat, v) with rot_mat = [[c, -s], [s, c]].T
YawRotate(yaw, v) ==
    LET c == Cos(yaw)
        s == Sin(yaw)
    IN <<RAdd(RMul(c, v[1]), RMul(s, v[2])),
         RAdd(RMul(RNeg(s), v[1]), RMul(c, v[2]))>>

Take(v, n) == SubSeq(v, 1, n)
PyLast(v) == v[Len(v)]

\* variant of the angle controllers whose rate stage takes the setpoint as its
\* target in modes 1 and 3
AngleControl_RateFromSetpoint(m, st, sp, pids) ==
    IF m \in {0, 2} THEN
        CHOOSE r \in
            { [out |-> a.out, pids |-> <<a.pid>>, stepped |-> <<"ang_vel">>,
               targets |-> <<a.target>>, outs |-> <<a.out>>]
              : a \in {PIDStep(pids[1], st[1], Take(sp, 3))} } : TRUE
    ELSE IF m \in {1, 3} THEN
        CHOOSE r \in UNION
            { { [out |-> a.out, pids |-> <<a.pid, b.pid>>,
                 stepped |-> <<"ang_pos", "ang_vel">>,
                 targets |-> <<b.target, a.target>>, outs |-> <<b.out, a.out>>]
                : a \in {PIDStep(pids[1], st[1], Take(sp, 3))} }
              : b \in {PIDStep(pids[2], st[2], Take(sp, 3))} } : TRUE
    ELSE IF m \in {4, 5, 6} THEN
        CHOOSE r \in UNION UNION
            { { { [out |-> a.out, pids |-> <<a.pid, b.pid, c.pid>>,
                   stepped |-> <<"lin_vel", "ang_pos", "ang_vel">>,
                   targets |-> <<c.target, b.target, a.target>>,
                   outs |-> <<c.out, b.out, a.out>>]
                  : a \in {PIDStep(pids[1], st[1], <<b.out[1], b.out[2], sp[3]>>)} }
                : b \in {PIDStep(pids[2], Take(st[2], 2), <<RNeg(c.out[2]), c.out[1]>>)} }
              : c \in {PIDStep(pids[3], Take(st[3], 2),
                                IF m = 6 THEN YawRotate(st[2][3], Take(sp, 2))
                                         ELSE Take(sp, 2))} } : TRUE
    ELSE IF m = 7 THEN
        CHOOSE r \in UNION UNION UNION
            { { { { [out |-> a.out, pids |-> <<a.pid, b.pid, c.pid, d.pid>>,
                     stepped |-> <<"lin_pos", "lin_vel", "ang_pos", "ang_vel">>,
                     targets |-> <<d.target, c.target, b.target, a.target>>,
                     outs |-> <<d.out, c.out, b.out, a.out>>]
                    : a \in {PIDStep(pids[1], st[1], b.out)} }
                  : b \in {PIDStep(pids[2], st[2], <<RNeg(c.out[2]), c.out[1], sp[3]>>)} }
                : c \in {PIDStep(pids[3], Take(st[3], 2), YawRotate(st[2][3], d.out))} }
              : d \in {PIDStep(pids[4], Take(st[4], 2), Take(sp, 2))} } : TRUE
    ELSE [out |-> <<>>, pids |-> pids, stepped |-> <<>>, targets |-> <<>>, outs |-> <<>>]

\* the angle controllers of update_control (lines 350-387): the output, the
\* new self.PIDs and the stages stepped, in order, each with the target it was
\* given and the output it returned
AngleControl(m, st, sp, pids) ==
    IF m \in {0, 2} THEN
        CHOOSE r \in
            { [out |-> a.out, pids |-> <<a.pid>>, stepped |-> <<"ang_vel">>,
               targets |-> <<a.target>>, outs |-> <<a.out>>]
              : a \in {PIDStep(pids[1], st[1], Take(sp, 3))} } : TRUE
    ELSE IF m \in {1, 3} THEN
        CHOOSE r \in UNION
            { { [out |-> a.out, pids |-> <<a.pid, b.pid>>,
                 stepped |-> <<"ang_pos", "ang_vel">>,
                 targets |-> <<b.target, a.target>>, outs |-> <<b.out, a.out>>]
                : a \in {PIDStep(pids[1], st[1], b.out)} }
              : b \in {PIDStep(pids[2], st[2], Take(sp, 3))} } : TRUE
    ELSE IF m \in {4, 5, 6} THEN
        CHOOSE r \in UNION UNION
            { { { [out |-> a.out, pids |-> <<a.pid, b.pid, c.pid>>,
                   stepped |-> <<"lin_vel", "ang_pos", "ang_vel">>,
                   targets |-> <<c.target, b.target, a.target>>,
                   outs |-> <<c.out, b.out, a.out>>]
                  : a \in {PIDStep(pids[1], st[1], <<b.out[1], b.out[2], sp[3]>>)} }
                : b \in {PIDStep(pids[2], Take(st[2], 2), <<RNeg(c.out[2]), c.out[1]>>)} }
              : c \in {PIDStep(pids[3], Take(st[3], 2),
                                IF m = 6 THEN YawRotate(st[2][3], Take(sp, 2))
                                         ELSE Take(sp, 2))} } : TRUE
    ELSE IF m = 7 THEN
        CHOOSE r \in UNION UNION UNION
            { { { { [out |-> a.out, pids |-> <<a.pid, b.pid, c.pid, d.pid>>,
                     stepped |-> <<"lin_pos", "lin_vel", "ang_pos", "ang_vel">>,
                     targets |-> <<d.target, c.target, b.target, a.target>>,
                     outs |-> <<d.out, c.out, b.out, a.out>>]
                    : a \in {PIDStep(pids[1], st[1], b.out)} }
                  : b \in {PIDStep(pids[2], st[2], <<RNeg(c.out[2]), c.out[1], sp[3]>>)} }
                : c \in {PIDStep(pids[3], Take(st[3], 2), YawRotate(st[2][3], d.out))} }
              : d \in {PIDStep(pids[4], Take(st[4], 2), Take(sp, 2))} } : TRUE
    ELSE [out |-> <<>>, pids |-> pids, stepped |-> <<>>, targets |-> <<>>, outs |-> <<>>]

\* variant of the height controllers that passes the mode-0 thrust through unclamped
HeightControl_Mode0Unclamped(m, st, sp, zp) ==
    IF m = 0 THEN
        [out |-> PyLast(sp), zpids |-> zp, stepped |-> <<>>,
         targets |-> <<>>, outs |-> <<>>, target |-> <<>>]
    ELSE IF m \in {1, 5, 6} THEN
        CHOOSE r \in
            { [out |-> RClip(v.out[1], Zero, One), zpids |-> <<v.pid, zp[2]>>,
               stepped |-> <<"z_vel">>, targets |-> <<v.target>>, outs |-> <<v.out>>,
               target |-> v.target]
              : v \in {PIDStep(zp[1], <<st[3][3]>>, <<PyLast(sp)>>)} } : TRUE
    ELSE IF m \in {2, 3, 4, 7} THEN
        CHOOSE r \in UNION
            { { [out |-> RClip(v.out[1], Zero, One), zpids |-> <<v.pid, p.pid>>,
                 stepped |-> <<"z_pos", "z_vel">>,
                 targets |-> <<p.target, v.target>>, outs |-> <<p.out, v.out>>,
                 target |-> p.target]
                : v \in {PIDStep(zp[1], <<st[3][3]>>, p.out)} }
              : p \in {PIDStep(zp[2], <<st[4][3]>>, <<PyLast(sp)>>)} } : TRUE
    ELSE [out |-> NaN, zpids |-> zp, stepped |-> <<>>, targets |-> <<>>, outs |-> <<>>,
          target |-> <<>>]

\* the height controllers of update_control (lines 389-399)
HeightControl(m, st, sp, zp) ==
    IF m = 0 THEN
        [out |-> RClip(PyLast(sp), Zero, One), zpids |-> zp, stepped |-> <<>>,
         targets |-> <<>>, outs |-> <<>>, target |-> <<>>]
    ELSE IF m \in {1, 5, 6} THEN
        CHOOSE r \in
            { [out |-> RClip(v.out[1], Zero, One), zpids |-> <<v.pid, zp[2]>>,
               stepped |-> <<"z_vel">>, targets |-> <<v.target>>, outs |-> <<v.out>>,
               target |-> v.target]
              : v \in {PIDStep(zp[1], <<st[3][3]>>, <<PyLast(sp)>>)} } : TRUE
    ELSE IF m \in {2, 3, 4, 7} THEN
        CHOOSE r \in UNION
            { { [out |-> RClip(v.out[1], Zero, One), zpids |-> <<v.pid, p.pid>>,
                 stepped |-> <<"z_pos", "z_vel">>,
                 targets |-> <<p.target, v.target>>, outs |-> <<p.out, v.out>>,
                 target |-> p.target]
                : v \in {PIDStep(zp[1], <<st[3][3]>>, p.out)} }
              : p \in {PIDStep(zp[2], <<st[4][3]>>, <<PyLast(sp)>>)} } : TRUE
    ELSE [out |-> NaN, zpids |-> zp, stepped |-> <<>>, targets |-> <<>>, outs |-> <<>>,
          target |-> <<>>]

\* update_control (lines 348-402) in mode m: the new controller states, the
\* command handed to the mixer, the new self.pwm and the stages stepped
ControlResult(a, z) ==
    [pids |-> a.pids, zpids |-> z.zpids,
     cmd |-> <<a.out[1], a.out[2], a.out[3], z.out>>,
     stepped |-> [angle |-> a.stepped, angle_targets |-> a.targets,
                  angle_outs |-> a.outs,
                  height |-> z.stepped, height_targets |-> z.targets,
                  height_outs |-> z.outs, z_target |-> z.target]]

update_control(m, st, sp, pids, zp) ==
    ControlResult(AngleControl(m, st, sp, pids), HeightControl(m, st, sp, zp))

\* update_control() called on its own
update_control_only ==
    /\ CountCall
    /\ IF mode \in Modes
       THEN \E c \in {update_control(mode, state, setpoint, PIDs, z_PIDs)} :
               /\ PIDs' = c.pids
               /\ z_PIDs' = c.zpids
               /\ pwm' = cmd2pwm(c.cmd)
               /\ drone_last' = DroneCall("update_control", NoArg, "none", <<>>, c.cmd,
                                          c.stepped, NoDrag)
       ELSE \* output and z_output are None: [*output, z_output] raises TypeError
            /\ drone_last' = DroneCall("update_control", NoArg, "TypeError", <<>>, <<>>,
                                       NoneStepped, NoDrag)
            /\ UNCHANGED <<PIDs, z_PIDs, pwm>>
    /\ UNCHANGED <<mode, state, setpoint, rpm>>

\* update(): update_state reads st, then update_control
update(st) ==
    /\ CountCall
    /\ state' = st
    /\ IF mode \in Modes
       THEN \E c \in {update_control(mode, st, setpoint, PIDs, z_PIDs)} :
               /\ PIDs' = c.pids
               /\ z_PIDs' = c.zpids
               /\ pwm' = cmd2pwm(c.cmd)
               /\ drone_last' = DroneCall("update", NoArg, "none", <<>>, c.cmd, c.stepped, NoDrag)
       ELSE \* output and z_output are None: [*output, z_output] raises TypeError
            /\ drone_last' = DroneCall("update", NoArg, "TypeError", <<>>, <<>>, NoneStepped, NoDrag)
            /\ UNCHANGED <<PIDs, z_PIDs, pwm>>
    /\ UNCHANGED <<mode, setpoint, rpm>>

\* update_drag (lines 166-177): drag is applied when getContactPoints(), called
\* without a body, returns no contact point
update_drag(contacts) ==
    [contacts |-> contacts, applied |-> Cardinality(contacts) = 0]

\* update_forces: rpm2forces(pwm2rpm(self.pwm)), then update_drag()
update_forces ==
    /\ CountCall
    /\ rpm' = pwm2rpm(rpm, pwm)
    /\ \E contacts \in ContactSamples :
          drone_last' = DroneCall("update_forces", NoArg, "none", pwm, <<>>, NoneStepped,
                                  update_drag(contacts))
    /\ UNCHANGED <<mode, state, setpoint, pwm, PIDs, z_PIDs>>

\* __init__: the height controllers are built, self.PIDs = [], then reset()
DroneInit ==
    /\ mode = 0
    /\ PIDs = ResetAll(ModeCascade(0, <<>>))
    /\ z_PIDs = <<PIDNew("z_vel", 1), PIDNew("z_pos", 1)>>
    /\ state = StartState
    /\ setpoint = VZero(4)
    /\ rpm = VZero(4)
    /\ pwm = VZero(4)
    /\ drone_ops = 0
    /\ drone_last = DroneCall("init", NoArg, "none", <<>>, <<>>, NoneStepped, NoDrag)

\* ---- cmd2pwm on a grid of commands ----
\* roll, pitch and yaw commands are the multiples of 1/4 up to CmdSpan/4 in size,
\* the thrust command those from 0 to 1
CmdGrid == {Rat(k, 4) : k \in (-CmdSpan)..CmdSpan}
ThrustGrid == {Rat(k, 4) : k \in 0..4}

MixInit(cmd) ==
    /\ mix_cmd = cmd
    /\ mix_out = <<>>

Mix ==
    /\ mix_out = <<>>
    /\ mix_out' = cmd2pwm(mix_cmd)
    /\ UNCHANGED mix_cmd

-----------------------------------------------------------------------------
(* Specifications *)

\* the fields of the parts a specification leaves alone
EnvIdle == EnvInit(120, 1)
DroneIdle == DroneInit
MixIdle == MixInit(VZero(4))

InitEnv ==
    /\ \E hz \in AgentHzInputs, n \in StartPosRows : EnvInit(hz, n)
    /\ DroneIdle
    /\ MixIdle

NextEnv ==
    \/ begin_reset /\ UNCHANGED <<drone_vars, mix_vars>>
    \/ end_reset /\ UNCHANGED <<drone_vars, mix_vars>>
    \/ step /\ UNCHANGED <<drone_vars, mix_vars>>

SpecEnv == InitEnv /\ [][NextEnv]_vars

InitDrone ==
    /\ DroneInit
    /\ EnvIdle
    /\ MixIdle

NextDrone ==
    \/ reset /\ UNCHANGED <<env_vars, mix_vars>>
    \/ (\E m \in ModeInputs : set_mode(m)) /\ UNCHANGED <<env_vars, mix_vars>>
    \/ (\E sp \in SetpointSamples : set_setpoint(sp)) /\ UNCHANGED <<env_vars, mix_vars>>
    \/ (\E st \in StateSamples : update_state(st)) /\ UNCHANGED <<env_vars, mix_vars>>
    \/ update_control_only /\ UNCHANGED <<env_vars, mix_vars>>
    \/ (\E st \in StateSamples : update(st)) /\ UNCHANGED <<env_vars, mix_vars>>
    \/ update_forces /\ UNCHANGED <<env_vars, mix_vars>>

SpecDrone == InitDrone /\ [][NextDrone]_vars

InitMixer ==
    /\ \E r \in CmdGrid, q \in CmdGrid, y \in CmdGrid, t \in ThrustGrid :
          MixInit(<<r, q, y, t>>)
    /\ EnvIdle
    /\ DroneIdle

NextMixer == Mix /\ UNCHANGED <<env_vars, drone_vars>>

SpecMixer == InitMixer /\ [][NextMixer]_vars

-----------------------------------------------------------------------------
(* Properties of MAFixedwingBaseEnv *)

\* a step() call that returned, seen from the state after it
StepReturned == last.op = "step" /\ last.exc = "none"
\* the transition is a step() call (any outcome)
StepCall == last'.op = "step"
\* the transition is a step() call that returned
StepCallReturned == last'.op = "step" /\ last'.exc = "none"
\* both reset phases were completed for the current simulation
ResetCompleted == has_aviary /\ aviary.warmed

IndexOf(k) == agent_name_mapping[k]

\* C1: every step() made after a completed reset with at least one substep
\* returns five mappings whose key set is the live-agent set at the start of
\* the call, the agents that finish during the call included.
C1_ReturnKeysAreStartAgents ==
    [][(StepCallReturned /\ ResetCompleted /\ env_step_ratio >= 1) =>
          /\ DOMAIN last'.ret.obs = Range(agents)
          /\ DOMAIN last'.ret.rewards = Range(agents)
          /\ DOMAIN last'.ret.terminations = Range(agents)
          /\ DOMAIN last'.ret.truncations = Range(agents)
          /\ DOMAIN last'.ret.infos = Range(agents)]_vars

\* an agent finished during a step() after a completed reset and is in the result
C1_Witness ==
    /\ StepReturned /\ ResetCompleted /\ env_step_ratio >= 1
    /\ \E k \in Range(last.agents_at_start) :
          /\ k \notin Range(agents)
          /\ k \in DOMAIN last.ret.obs
          /\ last.ret.terminations[k]

C3_LiveSetOnlyShrinks ==
    [][last'.op # "begin_reset" => Range(agents') \subseteq Range(agents)]_vars

\* a step() that removed an agent while another stays live
C3_Witness ==
    /\ StepReturned
    /\ Len(agents) < Len(last.agents_at_start)
    /\ Len(agents) > 0

\* C10 as stated: a step() issued before begin_reset, or after begin_reset
\* and before end_reset, advances neither the simulation nor the step counter.
C10_StepNeedsCompletedReset ==
    [][(StepCall /\ ~ResetCompleted) =>
          (aviary'.ticks = aviary.ticks /\ step_count' = step_count)]_vars


\* the hook evaluations of the last call made for agent k
CallsFor(k) == {i \in DOMAIN hook_calls : hook_calls[i].agent = k}

RECURSIVE RewardOver(_)
\* the sum of the rewards of a set of hook evaluations
RewardOver(idx) ==
    IF idx = {} THEN 0
    ELSE LET i == CHOOSE j \in idx : TRUE
         IN hook_calls[i].out.rew + RewardOver(idx \ {i})

\* C11: in a step() that returns, the outcome hook is evaluated for each agent
\* live at the start exactly once in every substep, also after a substep that
\* set one of its flags, and the returned termination and truncation are the
\* ORs and the returned reward the sum of the hook's results.
C11_HookOncePerSubstepAccumulated ==
    StepReturned =>
        \A k \in Range(last.agents_at_start) :
            /\ \A s \in Substeps :
                  Cardinality({i \in CallsFor(k) : hook_calls[i].substep = s}) = 1
            /\ Cardinality(CallsFor(k)) = Cardinality(Substeps)
            /\ last.ret.terminations[k] = (\E i \in CallsFor(k) : hook_calls[i].out.term)
            /\ last.ret.truncations[k] = (\E i \in CallsFor(k) : hook_calls[i].out.trunc)
            /\ last.ret.rewards[k] = RewardOver(CallsFor(k))

\* an agent terminated in the first of two substeps, evaluated again in the
\* second with a null result
C11_Witness ==
    /\ StepReturned
    /\ \E k \in Range(last.agents_at_start) :
          \E i, j \in CallsFor(k) :
              /\ hook_calls[i].substep = 1 /\ hook_calls[i].out.term
              /\ hook_calls[j].substep = 2 /\ ~hook_calls[j].out.term
              /\ last.ret.terminations[k]
              /\ last.ret.rewards[k] = 1

\* C14: after every step() call past_actions is the current-action buffer as
\* it stood right before the call, whatever the call then writes into the
\* current buffer.
C14_PastIsPreviousCurrent ==
    [][StepCall => past_actions' = current_actions]_vars

\* a step() that changed the current buffer while past_actions holds the old rows
C14_Witness ==
    /\ StepReturned
    /\ past_actions # current_actions
    /\ \E i \in DOMAIN past_actions : past_actions[i] # ZeroAction
    /\ \E i \in DOMAIN current_actions : current_actions[i] # ZeroAction

\* C16 as stated: construction fails for every integer agent_hz that does not
\* divide 120, and an accepted agent_hz has a positive substep count with
\* substep count * agent_hz = 120.
C16_AcceptedRateGivesPositiveSubsteps ==
    /\ (agent_hz = 0 \/ PhysicsRate % (IF agent_hz < 0 THEN -agent_hz ELSE agent_hz) # 0)
          => ~constructed
    /\ constructed => (env_step_ratio >= 1 /\ env_step_ratio * agent_hz = PhysicsRate)

\* the hook result (False, False, 0.0, {})
NullOutcome == [term |-> FALSE, trunc |-> FALSE, rew |-> 0, info |-> NoInfo]

\* C17: a step() call that returns and in which every hook evaluation gave the
\* null result keeps every live agent live, returns each of them with reward 0
\* and both flags False, and adds exactly 1 to the step counter, whatever the
\* substep count.
C17_NullHookKeepsAgents ==
    [][(StepCallReturned /\ \A i \in DOMAIN hook_calls' : hook_calls'[i].out = NullOutcome) =>
          /\ agents' = agents
          /\ DOMAIN last'.ret.rewards = Range(agents)
          /\ \A k \in Range(agents) :
                /\ last'.ret.rewards[k] = 0
                /\ ~last'.ret.terminations[k]
                /\ ~last'.ret.truncations[k]
          /\ step_count' = step_count + 1]_vars

\* the second of two null-hook steps of two agents at two substeps per step
C17_Witness ==
    /\ StepReturned
    /\ env_step_ratio = 2
    /\ Len(hook_calls) = 4
    /\ \A i \in DOMAIN hook_calls : hook_calls[i].out = NullOutcome
    /\ step_count = 2
    /\ agents = possible_agents /\ Len(agents) = 2

\* C18: after a step(actions) whose keys are all agent names, the row of the
\* current-action buffer at the index of every key k is actions[k], and no
\* other row holds a submitted value.
C18_SubmittedRowsWritten ==
    [][(StepCall /\ last'.exc # "KeyError") =>
          /\ \A k \in DOMAIN last'.actions :
                current_actions'[IndexOf(k)] = last'.actions[k]
          /\ \A i \in DOMAIN current_actions' :
                (~\E k \in DOMAIN last'.actions : IndexOf(k) = i)
                    => current_actions'[i] = ZeroAction]_vars

\* a mapping with the second agent only: its row is written, the first is not
C18_Witness ==
    /\ StepReturned
    /\ DOMAIN last.actions = {AgentNames[2]}
    /\ current_actions[1] = last.actions[AgentNames[2]]
    /\ current_actions[0] = ZeroAction

\* the agents culled in the current episode
CulledAgents == IF has_aviary THEN Range(possible_agents) \ Range(agents) ELSE {}

\* C19 as stated: a step() whose mapping holds the key of a culled agent does
\* not raise, evaluates no hook for that agent and does not hand the submitted
\* action to that agent's vehicle as a setpoint.
C19_CulledAgentExcluded ==
    [][(StepCall /\ ResetCompleted /\ UnknownKey \notin DOMAIN last'.actions) =>
          \A k \in CulledAgents \cap DOMAIN last'.actions :
              /\ last'.exc = "none"
              /\ \A i \in DOMAIN hook_calls' : hook_calls'[i].agent # k
              /\ aviary'.setpoints[IndexOf(k)] # last'.actions[k]]_vars


AllZero(buf) == \A i \in DOMAIN buf : buf[i] = ZeroAction

\* C23 as stated: after begin_reset and end_reset the current-action buffer is
\* all zeros, and the past_actions of the first step() of an episode is all
\* zeros, also when the episode before submitted non-zero actions.
C23_BuffersZeroAtEpisodeStart ==
    [][/\ (last.op = "begin_reset" /\ last'.op = "end_reset" /\ last'.exc = "none")
             => AllZero(current_actions')
       /\ (last.op = "end_reset" /\ ResetCompleted /\ StepCall)
             => AllZero(past_actions')]_vars

\* C25: once begin_reset has run, the live-agent list is possible_agents with
\* some names left out, in the original order and without duplicates, and
\* every name has the index it was given at construction.
C25_LiveListIsOrderedSublist ==
    has_aviary =>
        /\ agents = SeqFilter(possible_agents, Range(agents))
        /\ Cardinality(Range(agents)) = Len(agents)
        /\ DOMAIN agent_name_mapping = Range(possible_agents)
        /\ \A r \in DOMAIN possible_agents :
              agent_name_mapping[possible_agents[r]] = r - 1

\* the first of two agents was culled, the second stays live at its index 1
C25_Witness ==
    /\ StepReturned
    /\ Len(possible_agents) = 2
    /\ agents = <<AgentNames[2]>>
    /\ agent_name_mapping[AgentNames[2]] = 1

-----------------------------------------------------------------------------
(* Properties of Drone *)

InPwmRange(x) == IsNum(x) /\ RLe(PwmFloor, x) /\ RLe(x, One)

\* C4 as stated: every pulse width update_forces hands to pwm2rpm lies in
\* [0.05, 1.0], also when no update_control ran since reset.
C4_FedPwmInRange ==
    drone_last.op = "update_forces" =>
        \A i \in DOMAIN drone_last.fed_pwm : InPwmRange(drone_last.fed_pwm[i])

\* the command of C5: raw mix with minimum >= 0 and maximum > 0, or all zero
MixerPrecondition(cmd) ==
    \/ cmd = VZero(4)
    \/ /\ RLe(Zero, VMin(MotorMix(cmd)))
       /\ RLt(Zero, VMax(MotorMix(cmd)))

\* C5: for such a command cmd2pwm returns numbers (no division by zero), each
\* in [0.05, 1.0]; the floor shift never lifts a channel above 1.0.
C5_MixerOutputInRange ==
    (mix_out # <<>> /\ MixerPrecondition(mix_cmd)) =>
        \A i \in DOMAIN mix_out : InPwmRange(mix_out[i])

\* a command that is scaled by its maximum and then floor-shifted, with a
\* channel strictly inside the range
C5_Witness ==
    /\ mix_out # <<>>
    /\ MixerPrecondition(mix_cmd)
    /\ RLt(One, VMax(MotorMix(mix_cmd)))
    /\ RLt(VMin(ScaleByMax(MotorMix(mix_cmd))), PwmFloor)
    /\ \E i \in DOMAIN mix_out : RLt(PwmFloor, mix_out[i]) /\ RLt(mix_out[i], One)

\* the transition is a set_mode(m) call
SetModeCall == drone_last'.op = "set_mode"
\* the mode argument of a recorded set_mode call
ModeArg(call) == call.arg[1]

C7_SetpointIsFourVector == Len(setpoint) = 4

\* the PID stages update_control steps in mode m
SteppedHeightStages(m) ==
    IF m = 0 THEN {} ELSE IF m \in {1, 5, 6} THEN {1} ELSE {1, 2}

\* C8 as stated: right after set_mode(m), m in 0..7, every PID stage that
\* update_control steps in mode m, the height stages included, has zero
\* integrator and zero previous error.
C8_AllStagesResetOnModeEntry ==
    (drone_last.op = "set_mode" /\ ModeArg(drone_last) \in Modes) =>
        /\ \A i \in DOMAIN PIDs : PIDIsZero(PIDs[i])
        /\ \A j \in SteppedHeightStages(mode) : PIDIsZero(z_PIDs[j])

\* C9 as stated: set_mode with a value outside 0..7 is reported as an error
\* and changes neither the mode nor the setpoint nor the cascade.
C9_InvalidModeRejected ==
    [][(SetModeCall /\ ModeArg(drone_last') \notin Modes) =>
          /\ drone_last'.exc # "none"
          /\ mode' = mode
          /\ setpoint' = setpoint
          /\ PIDs' = PIDs]_vars

\* the number of stages of the cascade of mode m
StageCount(m) ==
    IF m \in {0, 2} THEN 1 ELSE IF m \in {1, 3} THEN 2 ELSE IF m \in {4, 5, 6} THEN 3 ELSE 4

\* C12: whenever the mode is one of 0..7 the active cascade self.PIDs has the
\* number of stages of that mode: 1 for modes 0 and 2, 2 for modes 1 and 3,
\* 3 for modes 4, 5 and 6, 4 for mode 7.
C12_CascadeSizeByMode ==
    mode \in Modes => Len(PIDs) = StageCount(mode)

\* mode 7 entered from a mode with a shorter cascade
C12_Witness ==
    /\ drone_last.op = "set_mode" /\ ModeArg(drone_last) = 7
    /\ drone_ops >= 2
    /\ Len(PIDs) = 4

\* the contact points that involve this vehicle
OwnContacts(contacts) == {c \in contacts : c[1] = ThisBody \/ c[2] = ThisBody}

\* C13 as stated: update_forces applies the drag force and torque exactly when
\* this vehicle has no contact point; contacts among other bodies do not
\* suppress it.
C13_DragIffNoOwnContact ==
    drone_last.op = "update_forces" =>
        (drone_last.drag.applied <=> OwnContacts(drone_last.drag.contacts) = {})

\* |a - b|
RDist(a, b) == IF RLe(a, b) THEN RSub(b, a) ELSE RSub(a, b)

\* C15: every pwm2rpm call moves each motor's speed toward max_rpm * pwm without
\* crossing it: the distance to the target does not grow and the speed stays
\* on the side of the target it was on.
C15_MotorLagMonotone ==
    [][drone_last'.op = "update_forces" =>
          \A i \in DOMAIN rpm :
              LET target == RMul(max_rpm, pwm[i])
              IN /\ RLe(RDist(rpm'[i], target), RDist(rpm[i], target))
                 /\ RLe(rpm[i], target) => RLe(rpm'[i], target)
                 /\ RLe(target, rpm[i]) => RLe(target, rpm'[i])]_vars

\* two successive ticks at a constant pulse width: a motor below its target
\* moved strictly closer and is still below it
C15_Witness ==
    /\ drone_last.op = "update_forces"
    /\ drone_ops >= 3
    /\ \E i \in DOMAIN rpm :
          /\ RLt(Zero, rpm[i])
          /\ RLt(rpm[i], RMul(max_rpm, pwm[i]))
          /\ RLt(RMul(Rat(1, 2), RMul(max_rpm, pwm[i])), rpm[i])

\* C20: the state matrix changes only in the calls that read the state
\* (update_state, update, reset) and the motor speeds only in update_forces
\* and reset: set_mode, update_control and update_forces leave the state as
\* it is, set_mode and update_control leave the motor speeds as they are.
C20_StateAndSpeedFrame ==
    [][/\ drone_last'.op \in {"set_mode", "update_control", "update_forces", "set_setpoint"}
             => state' = state
       /\ drone_last'.op \in {"set_mode", "update_control", "update", "update_state",
                              "set_setpoint"}
             => rpm' = rpm
       /\ (rpm' # rpm /\ rpm' = VZero(4)) => drone_last'.op = "reset"]_vars

\* a tick in which a motor above its target slowed down toward it
C15_AboveTarget ==
    /\ drone_last.op = "update_forces"
    /\ \E i \in DOMAIN rpm : RLt(RMul(max_rpm, pwm[i]), rpm[i])

\* a set_mode call on a vehicle whose motors turn and whose state was read
C20_Witness ==
    /\ drone_last.op = "set_mode"
    /\ rpm # VZero(4)
    /\ state # StartState

\* the last call ran update_control to its end
ControlRan == drone_last.op \in {"update", "update_control"} /\ drone_last.exc = "none"

\* C21: the thrust component of the command update_control hands to the mixer
\* is in [0, 1] in every mode 0..7; in mode 0 it is the setpoint's thrust
\* clamped to [0, 1].
C21_ThrustCommandInUnitRange ==
    ControlRan =>
        /\ IsNum(drone_last.cmd[4])
        /\ RLe(Zero, drone_last.cmd[4]) /\ RLe(drone_last.cmd[4], One)
        /\ mode = 0 => drone_last.cmd[4] = RClip(PyLast(setpoint), Zero, One)

\* update_control in mode 0 with the entry default thrust -1: thrust command 0
C21_Witness ==
    /\ ControlRan
    /\ mode = 0
    /\ PyLast(setpoint) = R(-1)
    /\ drone_last.cmd[4] = Zero

\* the target of an inner stage as derived from the output of the stage before
\* it: taken as it is by the rate stage, remapped (ax, ay) -> (-ay, ax) for the
\* attitude stage after a velocity stage, rotated into the yaw-aligned frame for
\* the velocity stage after the position stage
Linked(outer, inner, out, target) ==
    IF inner = "ang_vel" THEN Take(target, Len(out)) = out
    ELSE IF inner = "ang_pos" /\ outer = "lin_vel"
         THEN Take(target, 2) = <<RNeg(out[2]), out[1]>>
    ELSE IF inner = "lin_vel" /\ outer = "lin_pos"
         THEN target = YawRotate(state[2][3], out)
    ELSE inner = "z_vel" /\ outer = "z_pos" /\ target = out

\* C22: an update_control call in a mode 0..7 steps every stage of the active
\* cascade exactly once, from the outermost stage to the rate stage, each
\* stage's target being derived from the output of the stage before it; the
\* height cascade steps nothing in mode 0, the velocity stage in modes 1, 5
\* and 6, the position stage and then the velocity stage in modes 2, 3, 4, 7.
C22_CascadeSteppedOnceInOrder ==
    ControlRan =>
        LET sd == drone_last.stepped
            n == Len(PIDs)
        IN /\ Len(sd.angle) = n
           /\ \A i \in 1..n : sd.angle[i] = PIDs[n + 1 - i].stage
           /\ \A i \in 1..(n - 1) :
                 Linked(sd.angle[i], sd.angle[i + 1], sd.angle_outs[i],
                        sd.angle_targets[i + 1])
           /\ sd.height = (IF mode = 0 THEN <<>>
                           ELSE IF mode \in {1, 5, 6} THEN <<"z_vel">>
                           ELSE <<"z_pos", "z_vel">>)
           /\ Len(sd.height) = 2 =>
                 Linked(sd.height[1], sd.height[2], sd.height_outs[1],
                        sd.height_targets[2])

\* update_control in mode 7: four stages and both height stages stepped, with
\* a nonzero position-stage output handed down
C22_Witness ==
    /\ ControlRan
    /\ mode = 7
    /\ Len(drone_last.stepped.angle) = 4
    /\ drone_last.stepped.angle_outs[1] # VZero(2)
    /\ drone_last.stepped.height = <<"z_pos", "z_vel">>

\* C24 as stated: the update_control that follows set_mode(7) without a
\* setpoint change feeds the height position stage the vehicle's height at
\* the mode entry.
C24_Mode7HoldsHeight ==
    [][(/\ drone_last.op = "set_mode" /\ ModeArg(drone_last) = 7
        /\ drone_last'.op \in {"update", "update_control"}
        /\ drone_last'.exc = "none")
          => drone_last'.stepped.z_target = <<state[4][3]>>]_vars

====
